---- MODULE Spec2Model ----
(***************************************************************************)
(* imgtool: the batch runner (Runner::run, Runner::run_process), the       *)
(* resize resolver (Runner::set_scaled_size) and the entry point (main).   *)
(*                                                                         *)
(* Five specifications share the variables:                                *)
(*   Spec        one execution of main: Runner::run over a file or a       *)
(*               directory, one action per blocking step of the code;      *)
(*   SameDirSpec the same, the output directory being the directory of     *)
(*               the input, with and without a prefix;                     *)
(*   ResizeSpec  Runner::set_scaled_size applied once to every directive   *)
(*               the parser builds and natural size within the bounds;     *)
(*   ScaleSpec   Runner::set_scaled_size applied once to every Scale       *)
(*               directive the fields of ResizeArgs can hold;              *)
(*   PathSpec    Runner::make_path applied once to every file name,        *)
(*               prefix and suffix within the bounds.                      *)
(***************************************************************************)
EXTENDS Integers, Sequences, FiniteSets, TLC

VARIABLES
    options,             \* CliOptions held by RunConfiguration (immutable)
    pc,                  \* position of the single thread of control
    input_files,         \* Vec<PathBuf> collected from read_dir (file ids)
    idx,                 \* index in input_files of the file being processed
    caesium_parameters,  \* run_process's local clone of the template
    image_size,          \* imagesize::blob_size result of the current file
    convert_result,      \* result of caesium::convert_in_memory
    compressed,          \* bytes produced for the current file
    file_result,         \* Result returned by run_process for the current file
    returns,             \* history: what each call of run_process returned
    run_result,          \* Result returned by Runner::run
    events,              \* every filesystem / codec call made, in order
    stderr,              \* lines printed with eprintln!
    exit_code,           \* process exit status (-1 while running)
    dir_entries,         \* what the directory of the input holds on disk
    output_file          \* the path the current file's bytes are written to

vars == <<options, pc, input_files, idx, caesium_parameters, image_size,
          convert_result, compressed, file_result, returns, run_result, events,
          stderr, exit_code, dir_entries, output_file>>

\* the locals of Runner::run and of Runner::run_process
run_locals == <<input_files, idx>>
process_locals == <<caesium_parameters, image_size, convert_result, compressed,
                    file_result, returns>>

\* the directory of the input and the path of the current output
disk == <<dir_entries, output_file>>

---------------------------------------------------------------------------
(* Bounds of the model *)

\* largest natural width / height probed in ResizeSpec
MaxDim == 15
\* largest edge_size of a ShortEdge / LongEdge directive in ResizeSpec
MaxEdge == 25
\* directive floats (w, h, ratio) range over k/4 for -2 <= k <= MaxFloatQ
MaxFloatQ == 9

---------------------------------------------------------------------------
(* f32 arithmetic.  A float is [m, e] standing for m * 2^e, with at most   *)
(* MantissaBits significant bits in m.  Every operation rounds to nearest, *)
(* ties to even, as IEEE-754 single precision does.  Values stay far from  *)
(* the exponent limits, so there are no subnormals, infinities or NaN.     *)

\* significand width of f32
MantissaBits == 24

Pow2(n) == 2^n

RECURSIVE BitLen(_)
BitLen(n) == IF n = 0 THEN 0 ELSE 1 + BitLen(n \div 2)

Abs(n) == IF n < 0 THEN -n ELSE n

Sign(n) == IF n < 0 THEN -1 ELSE 1

\* num / den rounded to the nearest integer, ties to even (num >= 0, den > 0)
RoundHalfEven(num, den) ==
    LET q == num \div den
        r == num % den
    IN  IF 2 * r < den THEN q
        ELSE IF 2 * r > den THEN q + 1
        ELSE q + (q % 2)

\* m * 2^e rounded to MantissaBits significant bits
RoundF32(m, e) ==
    LET k == BitLen(Abs(m)) - MantissaBits
    IN  IF k <= 0 THEN [m |-> m, e |-> e]
        ELSE [m |-> Sign(m) * RoundHalfEven(Abs(m), Pow2(k)), e |-> e + k]

\* `n as f32` for an unsigned integer n
U32AsF32(n) == RoundF32(n, 0)

\* x / y in f32 (x >= 0, y > 0): the exact quotient rounded once
DivF32(x, y) ==
    IF x.m = 0 THEN [m |-> 0, e |-> 0]
    ELSE
        LET s0 == MantissaBits + BitLen(y.m) - BitLen(x.m)
            s  == IF (x.m * Pow2(s0)) \div y.m >= Pow2(MantissaBits)
                  THEN s0 - 1 ELSE s0
        IN  [m |-> RoundHalfEven(x.m * Pow2(s), y.m), e |-> x.e - y.e - s]

\* x * y in f32: the exact product rounded once
MulF32(x, y) == RoundF32(x.m * y.m, x.e + y.e)

\* mutant of AsU32: rounds to the nearest integer instead of truncating
AsU32_Rounding(x) ==
    IF x.m <= 0 THEN 0
    ELSE IF x.e >= 0 THEN x.m * Pow2(x.e)
    ELSE IF -x.e >= 31 THEN 0
    ELSE RoundHalfEven(x.m, Pow2(-x.e))

\* `x as u32` for a float x: truncation toward zero, negatives give 0
AsU32(x) ==
    IF x.m <= 0 THEN 0
    ELSE IF x.e >= 0 THEN x.m * Pow2(x.e)
    ELSE IF -x.e >= 31 THEN 0
    ELSE x.m \div Pow2(-x.e)

---------------------------------------------------------------------------
(* options.rs: ResizeRule, ResizeArgs *)

ResizeRule == {"NoResize", "Size", "Scale", "ShortEdge", "LongEdge", "Width", "Height"}

ZeroF32 == [m |-> 0, e |-> 0]

\* ResizeArgs::new()
ResizeArgsNew ==
    [rule |-> "NoResize", edge_size |-> 0, width |-> ZeroF32, height |-> ZeroF32,
     ratio |-> ZeroF32, donot_enlarge |-> FALSE, keep_aspect_ratio |-> TRUE]

\* the floats a key=value argument is parsed to: quarters, negative ones included
Floats == {[m |-> k, e |-> -2] : k \in -2..MaxFloatQ}

\* ResizeArgs::from_str: the directives the parser builds.  Fields the rule does
\* not read stay at their ResizeArgs::new() value.
ResizeArgsFromStr(rule) ==
    LET base == {[ResizeArgsNew EXCEPT !.rule = rule, !.keep_aspect_ratio = k] :
                    k \in BOOLEAN}
    IN  CASE rule = "Size" ->
                {[b EXCEPT !.width = w, !.height = h] :
                    b \in base, w \in Floats, h \in Floats}
          [] rule = "Scale" ->
                {[b EXCEPT !.ratio = r] : b \in base, r \in Floats}
                \cup {[b EXCEPT !.width = w, !.height = h] :
                        b \in base, w \in Floats, h \in Floats}
          [] rule \in {"ShortEdge", "LongEdge"} ->
                {[b EXCEPT !.edge_size = s] : b \in base, s \in 0..MaxEdge}
          [] rule = "Width" ->
                {[b EXCEPT !.width = w] : b \in base, w \in Floats}
          [] rule = "Height" ->
                {[b EXCEPT !.height = h] : b \in base, h \in Floats}
          [] OTHER -> base

---------------------------------------------------------------------------
(* runner.rs: Runner::set_scaled_size *)

\* CSParameters::new(): width and height unset
ParametersTemplate == [width |-> 0, height |-> 0]

\* mutant of set_scaled_size: for Scale, non-zero width / height fractions
\* are used first and ratio only when they are unset
set_scaled_size_FractionsFirst(cs, resize_args, size) ==
    IF resize_args.rule # "Scale" THEN cs
    ELSE IF resize_args.width.m # 0 \/ resize_args.height.m # 0
    THEN [cs EXCEPT
            !.width = AsU32(MulF32(U32AsF32(size.width), resize_args.width)),
            !.height = AsU32(MulF32(U32AsF32(size.height), resize_args.height))]
    ELSE [cs EXCEPT
            !.width = AsU32(MulF32(U32AsF32(size.width), resize_args.ratio)),
            !.height = AsU32(MulF32(U32AsF32(size.height), resize_args.ratio))]

\* the match on resize_args.rule, given the probed image size
set_scaled_size(cs, resize_args, size) ==
    LET origin_width  == size.width
        origin_height == size.height
        rule == resize_args.rule
    IN  CASE rule = "Size" ->
                [cs EXCEPT !.width = AsU32(resize_args.width),
                           !.height = AsU32(resize_args.height)]
          [] rule = "Scale" ->
                IF resize_args.ratio.m # 0
                THEN [cs EXCEPT
                        !.width = AsU32(MulF32(U32AsF32(origin_width), resize_args.ratio)),
                        !.height = AsU32(MulF32(U32AsF32(origin_height), resize_args.ratio))]
                ELSE [cs EXCEPT
                        !.width = AsU32(MulF32(U32AsF32(origin_width), resize_args.width)),
                        !.height = AsU32(MulF32(U32AsF32(origin_height), resize_args.height))]
          [] rule \in {"ShortEdge", "LongEdge"} ->
                LET set_width_to_edge_size ==
                        IF rule = "ShortEdge"
                        THEN origin_width < origin_height
                        ELSE origin_width > origin_height
                IN  IF set_width_to_edge_size
                    THEN LET scale_ratio == DivF32(U32AsF32(resize_args.edge_size),
                                                   U32AsF32(origin_width))
                         IN  [cs EXCEPT
                                !.width = resize_args.edge_size,
                                !.height = IF resize_args.keep_aspect_ratio
                                           THEN AsU32(MulF32(U32AsF32(origin_height), scale_ratio))
                                           ELSE @]
                    ELSE LET scale_ratio == DivF32(U32AsF32(resize_args.edge_size),
                                                   U32AsF32(origin_height))
                         IN  [cs EXCEPT
                                !.height = resize_args.edge_size,
                                !.width = IF resize_args.keep_aspect_ratio
                                          THEN AsU32(MulF32(U32AsF32(origin_width), scale_ratio))
                                          ELSE @]
          [] rule = "Width" ->
                [cs EXCEPT !.width = AsU32(resize_args.width),
                           !.height = IF ~resize_args.keep_aspect_ratio
                                      THEN origin_height ELSE @]
          [] rule = "Height" ->
                [cs EXCEPT !.height = AsU32(resize_args.height),
                           !.width = IF ~resize_args.keep_aspect_ratio
                                     THEN origin_width ELSE @]
          [] OTHER -> cs

---------------------------------------------------------------------------
(* Values exchanged by the steps of Runner::run and Runner::run_process *)

\* largest number of regular files read_dir finds in the input directory
MaxFiles == 3

\* CaesiumError.code meaning "target format equals the source format"
SameFormatCode == 10407

\* the codes a failing compress / convert call reports
ErrorCodes == {SameFormatCode - 1, SameFormatCode}

\* Result<_, ImageProcessError> / Result<_, CaesiumError>
Pending == [state |-> "pending", step |-> "none", code |-> 0, file |-> 0]
Ok      == [state |-> "ok", step |-> "none", code |-> 0, file |-> 0]
Err(step, code, file) == [state |-> "err", step |-> step, code |-> code, file |-> file]

\* byte vectors: the file's own bytes, or what a codec call made of them
NoData == [kind |-> "none", file |-> 0, params |-> ParametersTemplate]
OriginData(f) == [kind |-> "origin", file |-> f, params |-> ParametersTemplate]
CodecOutput(kind, f, p) == [kind |-> kind, file |-> f, params |-> p]

NoSize == [width |-> 0, height |-> 0]

\* one call into the filesystem or the codec library
Event(op, f, ok, code, data, params) ==
    [op |-> op, file |-> f, ok |-> ok, code |-> code, data |-> data, params |-> params]

\* an eprintln! line: by Runner::run (per file) or by main
Line(src, f, err) == [src |-> src, file |-> f, err |-> err]

\* what imagesize::blob_size reports for the bytes of file f when it can
\* read them: the files of a run are portrait and landscape images in turn
blob_size(f) ==
    IF f % 2 = 1 THEN [width |-> 1, height |-> 2] ELSE [width |-> 2, height |-> 1]

\* the resize directives of a run
RunDirectives ==
    {ResizeArgsNew,
     [ResizeArgsNew EXCEPT !.rule = "ShortEdge", !.edge_size = 3,
                           !.keep_aspect_ratio = FALSE]}

\* Option<String>, a string being the sequence of its characters
None == [some |-> FALSE, value |-> <<>>]
Some(v) == [some |-> TRUE, value |-> v]

\* CliOptions as the runner reads them; input and output are given by what
\* the path is on disk when the run starts: "dir" is an output directory
\* other than the directory of the input, "input_dir" is that directory itself
CliOptions ==
    [input : {"missing", "file", "dir"},
     output : {"missing", "file", "dir"},
     continue_on_error : BOOLEAN,
     delete_origin : BOOLEAN,
     target_format : {"None", "Some"},
     resize_args : RunDirectives,
     prefix : {None},
     suffix : {None}]

\* the file run_process is working on
input_file == IF options.input = "file" THEN 1 ELSE input_files[idx]

\* The directory of the input. Its regular files are named 1, 2, ... so that
\* name n + 1 is name n with the prefix of the run before it (as "a.jpg",
\* "s_a.jpg", "s_s_a.jpg" are for the prefix "s_"); it has one child that is
\* no regular file.
Subdirectory == 0

DirEntry(name, is_file) == [name |-> name, is_file |-> is_file]

Directory(n) ==
    {DirEntry(i, TRUE) : i \in 1..n} \cup {DirEntry(Subdirectory, FALSE)}

\* what is on disk when the run starts
InitialEntries(o) ==
    CASE o.input = "missing" -> {{}}
      [] o.input = "file" -> {Directory(n) : n \in 1..MaxFiles}
      [] o.input = "dir" -> {Directory(n) : n \in 0..MaxFiles}

\* the filter on path.is_file() at line 76
RegularFiles(entries) == {e.name : e \in {x \in entries : x.is_file}}

\* read_dir ... collect(): the regular files of the directory, each once (the
\* order of read_dir is taken to be that of the names)
Listing(entries) ==
    LET files == RegularFiles(entries)
        n == Cardinality(files)
    IN  CHOOSE s \in [1..n -> files] : \A i, j \in 1..n : i < j => s[i] < s[j]

\* no output path computed yet
NoPath == [joined |-> FALSE, in_input_dir |-> FALSE, name |-> 0]

\* make_path on the numbered names: the prefix, if any, before the file name
OutputName(f) == IF options.prefix.some THEN f + 1 ELSE f

\* the output path of input f: make_path's join when the output is a
\* directory (always, for a directory input), else the output path as given
OutputFile(f) ==
    IF options.input = "file" /\ options.output \in {"missing", "file"}
    THEN [joined |-> FALSE, in_input_dir |-> FALSE, name |-> 0]
    ELSE [joined |-> TRUE, in_input_dir |-> options.output = "input_dir",
          name |-> OutputName(f)]

---------------------------------------------------------------------------
(* main and Runner::run *)

Init ==
    /\ options \in CliOptions
    /\ pc = "run"
    /\ input_files = <<>>
    /\ idx = 0
    /\ caesium_parameters = ParametersTemplate
    /\ image_size = NoSize
    /\ convert_result = Pending
    /\ compressed = NoData
    /\ file_result = Pending
    /\ returns = <<>>
    /\ run_result = Pending
    /\ events = <<>>
    /\ stderr = <<>>
    /\ exit_code = -1
    /\ dir_entries \in InitialEntries(options)
    /\ output_file = NoPath

\* Runner::run returns r to main
RunReturns(r) ==
    /\ run_result' = r
    /\ pc' = "main_result"

\* run_process returns r to Runner::run
ProcessReturns(r) ==
    /\ file_result' = r
    /\ returns' = Append(returns, [file |-> input_file, result |-> r])
    /\ pc' = "process_returned"

\* run, lines 40-59: the input must exist; a file input is processed at once
RunBegin ==
    /\ pc = "run"
    /\ \/ /\ options.input = "missing"
          /\ RunReturns(Err("input_exists", 0, 0))
          /\ UNCHANGED <<run_locals, output_file>>
       \/ /\ options.input = "file"
          /\ output_file' = OutputFile(1)
          /\ pc' = "read"
          /\ UNCHANGED <<run_result, run_locals>>
       \/ /\ options.input = "dir"
          /\ pc' = "prepare_output"
          /\ UNCHANGED <<run_result, run_locals, output_file>>
    /\ UNCHANGED <<options, process_locals, events, stderr, exit_code, dir_entries>>

\* mutant of PrepareOutput: an output that is a regular file is not examined
\* before the listing
PrepareOutput_NoFileCheck ==
    /\ pc = "prepare_output"
    /\ \/ /\ options.output = "missing"
          /\ \E ok \in BOOLEAN :
                /\ events' = Append(events,
                        Event("create_dir_all", 0, ok, 0, NoData, ParametersTemplate))
                /\ IF ok
                   THEN pc' = "enumerate" /\ UNCHANGED run_result
                   ELSE RunReturns(Err("create_dir_all", 0, 0))
       \/ /\ options.output \in {"file", "dir", "input_dir"}
          /\ pc' = "enumerate"
          /\ UNCHANGED <<run_result, events>>
    /\ UNCHANGED <<options, run_locals, process_locals, stderr, exit_code, disk>>

\* run, lines 63-71: a directory input needs a directory output
PrepareOutput ==
    /\ pc = "prepare_output"
    /\ \/ /\ options.output = "missing"
          /\ \E ok \in BOOLEAN :
                /\ events' = Append(events,
                        Event("create_dir_all", 0, ok, 0, NoData, ParametersTemplate))
                /\ IF ok
                   THEN pc' = "enumerate" /\ UNCHANGED run_result
                   ELSE RunReturns(Err("create_dir_all", 0, 0))
       \/ /\ options.output = "file"
          /\ RunReturns(Err("output_is_file", 0, 0))
          /\ UNCHANGED events
       \/ /\ options.output \in {"dir", "input_dir"}
          /\ pc' = "enumerate"
          /\ UNCHANGED <<run_result, events>>
    /\ UNCHANGED <<options, run_locals, process_locals, stderr, exit_code, disk>>

\* run, lines 73-77: the regular files directly inside the input directory
Enumerate ==
    /\ pc = "enumerate"
    /\ \/ /\ input_files' = Listing(dir_entries)
          /\ events' = Append(events,
                    Event("read_dir", 0, TRUE, 0, NoData, ParametersTemplate))
          /\ pc' = "loop"
          /\ UNCHANGED run_result
       \/ /\ events' = Append(events,
                    Event("read_dir", 0, FALSE, 0, NoData, ParametersTemplate))
          /\ RunReturns(Err("read_dir", 0, 0))
          /\ UNCHANGED input_files
    /\ UNCHANGED <<options, idx, process_locals, stderr, exit_code, disk>>

\* mutant of LoopNext: the directory is read lazily, the loop taking at each
\* turn the next regular file that is in the directory by then
LoopNext_Relist ==
    /\ pc = "loop"
    /\ LET later == {f \in RegularFiles(dir_entries) :
                        idx = 0 \/ f > input_files[idx]}
       IN  IF later # {}
           THEN /\ LET next == CHOOSE f \in later : \A g \in later : f <= g
                   IN  /\ input_files' = Append(SubSeq(input_files, 1, idx), next)
                       /\ output_file' = OutputFile(next)
                /\ idx' = idx + 1
                /\ pc' = "read"
                /\ UNCHANGED run_result
           ELSE /\ RunReturns(Ok)
                /\ UNCHANGED <<idx, input_files, output_file>>
    /\ UNCHANGED <<options, process_locals, events, stderr, exit_code, dir_entries>>

\* run, lines 80-84 and 94: the for loop takes the next file, or the run is over
LoopNext ==
    /\ pc = "loop"
    /\ IF idx < Len(input_files)
       THEN /\ idx' = idx + 1
            /\ output_file' = OutputFile(input_files[idx + 1])
            /\ pc' = "read"
            /\ UNCHANGED run_result
       ELSE /\ RunReturns(Ok)
            /\ UNCHANGED <<idx, output_file>>
    /\ UNCHANGED <<options, input_files, process_locals, events, stderr, exit_code,
                   dir_entries>>

---------------------------------------------------------------------------
(* Runner::run_process *)

\* mutant of Unwrap: the codec's error is dropped and run_process goes on
Unwrap_IgnoreError(result, bytes) ==
    /\ compressed' = bytes
    /\ pc' = IF options.delete_origin THEN "delete" ELSE "write"
    /\ UNCHANGED <<file_result, returns>>

\* mutant of Unwrap: the input is deleted whether delete_origin is set or not
Unwrap_AlwaysDelete(result, bytes) ==
    IF result.state = "ok"
    THEN /\ compressed' = bytes
         /\ pc' = "delete"
         /\ UNCHANGED <<file_result, returns>>
    ELSE /\ ProcessReturns(result)
         /\ UNCHANGED compressed

\* `compressed?` at line 178, and the test of delete_origin at line 180
Unwrap(result, bytes) ==
    IF result.state = "ok"
    THEN /\ compressed' = bytes
         /\ pc' = IF options.delete_origin THEN "delete" ELSE "write"
         /\ UNCHANGED <<file_result, returns>>
    ELSE /\ ProcessReturns(result)
         /\ UNCHANGED compressed

\* the outcomes of one codec call on the file's bytes
CodecResults(step) == {Ok} \cup {Err(step, c, input_file) : c \in ErrorCodes}

\* mutant of Read: the parameters of the file before are kept, no fresh clone
Read_NoClone ==
    /\ pc = "read"
    /\ \E ok \in BOOLEAN :
          /\ events' = Append(events,
                    Event("read", input_file, ok, 0, NoData, ParametersTemplate))
          /\ IF ok
             THEN /\ pc' = IF options.resize_args.rule # "NoResize"
                           THEN "resize" ELSE "codec"
                  /\ UNCHANGED <<file_result, returns>>
             ELSE ProcessReturns(Err("read", 0, input_file))
    /\ image_size' = NoSize
    /\ convert_result' = Pending
    /\ compressed' = NoData
    /\ UNCHANGED <<options, run_locals, caesium_parameters, run_result, stderr,
                   exit_code, disk>>

\* line 148: fs::read, then the clone of the template at line 150
Read ==
    /\ pc = "read"
    /\ \E ok \in BOOLEAN :
          /\ events' = Append(events,
                    Event("read", input_file, ok, 0, NoData, ParametersTemplate))
          /\ IF ok
             THEN /\ caesium_parameters' = ParametersTemplate
                  /\ pc' = IF options.resize_args.rule # "NoResize"
                           THEN "resize" ELSE "codec"
                  /\ UNCHANGED <<file_result, returns>>
             ELSE /\ ProcessReturns(Err("read", 0, input_file))
                  /\ UNCHANGED caesium_parameters
    /\ image_size' = NoSize
    /\ convert_result' = Pending
    /\ compressed' = NoData
    /\ UNCHANGED <<options, run_locals, run_result, stderr, exit_code, disk>>

\* lines 152-155: set_scaled_size probes the size and resolves the target
Resize ==
    /\ pc = "resize"
    /\ \/ /\ events' = Append(events,
                    Event("probe", input_file, FALSE, 0, OriginData(input_file),
                          caesium_parameters))
          /\ ProcessReturns(Err("probe", 0, input_file))
          /\ UNCHANGED <<caesium_parameters, image_size>>
       \/ /\ events' = Append(events,
                    Event("probe", input_file, TRUE, 0, OriginData(input_file),
                          caesium_parameters))
          /\ image_size' = blob_size(input_file)
          /\ caesium_parameters' =
                set_scaled_size(caesium_parameters, options.resize_args,
                                blob_size(input_file))
          /\ pc' = "codec"
          /\ UNCHANGED <<file_result, returns>>
    /\ UNCHANGED <<options, run_locals, convert_result, compressed, run_result,
                   stderr, exit_code, disk>>

\* line 158: no target format, compress_in_memory
Compress ==
    /\ pc = "codec"
    /\ options.target_format = "None"
    /\ \E r \in CodecResults("compress") :
          /\ events' = Append(events,
                    Event("compress", input_file, r.state = "ok", r.code,
                          OriginData(input_file), caesium_parameters))
          /\ Unwrap(r, CodecOutput("compressed", input_file, caesium_parameters))
    /\ UNCHANGED <<options, run_locals, caesium_parameters, image_size,
                   convert_result, run_result, stderr, exit_code, disk>>

\* mutant of FallsBack: any convert error is answered by compressing
FallsBack_AnyError(r) == r.state = "err"

\* whether run_process answers a failed convert by compressing instead (168-170)
FallsBack(r) == r.state = "err" /\ r.code = SameFormatCode

\* lines 159-174: a target format, convert_in_memory; its result stands unless
\* it is the same-format error
Convert ==
    /\ pc = "codec"
    /\ options.target_format = "Some"
    /\ \E r \in CodecResults("convert") :
          /\ events' = Append(events,
                    Event("convert", input_file, r.state = "ok", r.code,
                          OriginData(input_file), caesium_parameters))
          /\ convert_result' = r
          /\ IF FallsBack(r)
             THEN /\ pc' = "fallback"
                  /\ UNCHANGED <<compressed, file_result, returns>>
             ELSE Unwrap(r, CodecOutput("converted", input_file, caesium_parameters))
    /\ UNCHANGED <<options, run_locals, caesium_parameters, image_size,
                   run_result, stderr, exit_code, disk>>

\* line 171: compress_in_memory on the original bytes after the same-format error
FallbackCompress ==
    /\ pc = "fallback"
    /\ \E r \in CodecResults("compress") :
          /\ events' = Append(events,
                    Event("compress", input_file, r.state = "ok", r.code,
                          OriginData(input_file), caesium_parameters))
          /\ Unwrap(r, CodecOutput("compressed", input_file, caesium_parameters))
    /\ UNCHANGED <<options, run_locals, caesium_parameters, image_size,
                   convert_result, run_result, stderr, exit_code, disk>>

\* mutant of Delete: a failed deletion does not stop the write
Delete_IgnoreFailure ==
    /\ pc = "delete"
    /\ \E ok \in BOOLEAN :
          /\ events' = Append(events,
                    Event("delete", input_file, ok, 0, NoData, ParametersTemplate))
          /\ dir_entries' = IF ok THEN dir_entries \ {DirEntry(input_file, TRUE)}
                                ELSE dir_entries
          /\ pc' = "write"
          /\ UNCHANGED <<file_result, returns>>
    /\ UNCHANGED <<options, run_locals, caesium_parameters, image_size,
                   convert_result, compressed, run_result, stderr, exit_code,
                   output_file>>

\* lines 180-182: fs::remove_file of the input
Delete ==
    /\ pc = "delete"
    /\ \E ok \in BOOLEAN :
          /\ events' = Append(events,
                    Event("delete", input_file, ok, 0, NoData, ParametersTemplate))
          /\ IF ok
             THEN /\ dir_entries' = dir_entries \ {DirEntry(input_file, TRUE)}
                  /\ pc' = "write"
                  /\ UNCHANGED <<file_result, returns>>
             ELSE /\ ProcessReturns(Err("delete", 0, input_file))
                  /\ UNCHANGED dir_entries
    /\ UNCHANGED <<options, run_locals, caesium_parameters, image_size,
                   convert_result, compressed, run_result, stderr, exit_code,
                   output_file>>

\* fs::write creates (or truncates) the file at output_file, then writes: the
\* file is there after a success, and may be there after a failure
Created(ok) ==
    IF ~output_file.in_input_dir THEN {FALSE}
    ELSE IF ok THEN {TRUE} ELSE BOOLEAN

\* line 184: fs::write of the compressed bytes, run_process's last step
Write ==
    /\ pc = "write"
    /\ \E ok \in BOOLEAN :
          /\ events' = Append(events,
                    Event("write", input_file, ok, 0, compressed, ParametersTemplate))
          /\ \E created \in Created(ok) :
                dir_entries' =
                    IF created
                    THEN dir_entries \cup {DirEntry(output_file.name, TRUE)}
                    ELSE dir_entries
          /\ ProcessReturns(IF ok THEN Ok ELSE Err("write", 0, input_file))
    /\ UNCHANGED <<options, run_locals, caesium_parameters, image_size,
                   convert_result, compressed, run_result, stderr, exit_code,
                   output_file>>

---------------------------------------------------------------------------
(* Back in Runner::run and main *)

\* mutant of SingleReturn: continue_on_error also swallows a single file's error
SingleReturn_ContinueOnError ==
    /\ pc = "process_returned"
    /\ options.input = "file"
    /\ IF file_result.state = "err" /\ options.continue_on_error
       THEN /\ stderr' = Append(stderr, Line("run", input_file, file_result))
            /\ RunReturns(Ok)
       ELSE /\ RunReturns(file_result)
            /\ UNCHANGED stderr
    /\ UNCHANGED <<options, run_locals, process_locals, events, exit_code, disk>>

\* line 58: a file input, run returns what run_process returned
SingleReturn ==
    /\ pc = "process_returned"
    /\ options.input = "file"
    /\ RunReturns(file_result)
    /\ UNCHANGED <<options, run_locals, process_locals, events, stderr, exit_code, disk>>

\* mutant of BatchAfterProcess: the loop goes on whatever continue_on_error is
BatchAfterProcess_AlwaysContinue ==
    /\ pc = "process_returned"
    /\ options.input = "dir"
    /\ IF file_result.state = "err"
       THEN /\ stderr' = Append(stderr, Line("run", input_file, file_result))
            /\ pc' = "loop"
            /\ UNCHANGED run_result
       ELSE /\ pc' = "loop"
            /\ UNCHANGED <<run_result, stderr>>
    /\ UNCHANGED <<options, run_locals, process_locals, events, exit_code, disk>>

\* mutant of BatchAfterProcess: the first error ends the run whatever
\* continue_on_error is
BatchAfterProcess_NeverContinue ==
    /\ pc = "process_returned"
    /\ options.input = "dir"
    /\ IF file_result.state = "err"
       THEN /\ RunReturns(file_result)
            /\ UNCHANGED stderr
       ELSE /\ pc' = "loop"
            /\ UNCHANGED <<run_result, stderr>>
    /\ UNCHANGED <<options, run_locals, process_locals, events, exit_code, disk>>

\* lines 85-91: a directory input, the loop's handling of run_process's result
BatchAfterProcess ==
    /\ pc = "process_returned"
    /\ options.input = "dir"
    /\ IF file_result.state = "err"
       THEN IF ~options.continue_on_error
            THEN /\ RunReturns(file_result)
                 /\ UNCHANGED stderr
            ELSE /\ stderr' = Append(stderr, Line("run", input_file, file_result))
                 /\ pc' = "loop"
                 /\ UNCHANGED run_result
       ELSE /\ pc' = "loop"
            /\ UNCHANGED <<run_result, stderr>>
    /\ UNCHANGED <<options, run_locals, process_locals, events, exit_code, disk>>

\* main.rs, lines 19-23: print the run's error, then main returns
MainResult ==
    /\ pc = "main_result"
    /\ stderr' = IF run_result.state = "err"
                 THEN Append(stderr, Line("main", 0, run_result))
                 ELSE stderr
    /\ exit_code' = 0
    /\ pc' = "exited"
    /\ UNCHANGED <<options, run_locals, process_locals, run_result, events, disk>>

Next ==
    \/ RunBegin
    \/ PrepareOutput
    \/ Enumerate
    \/ LoopNext
    \/ Read
    \/ Resize
    \/ Compress
    \/ Convert
    \/ FallbackCompress
    \/ Delete
    \/ Write
    \/ SingleReturn
    \/ BatchAfterProcess
    \/ MainResult

Spec == Init /\ [][Next]_vars

---------------------------------------------------------------------------
(* set_scaled_size on its own: every directive the parser builds, applied   *)
(* to every natural size within the bounds                                 *)

ResizeDirectives ==
    UNION {ResizeArgsFromStr(rule) : rule \in ResizeRule \ {"NoResize"}}

NaturalSizes == [width : 1..MaxDim, height : 1..MaxDim]

ResizeInit ==
    /\ options \in [input : {"file"}, output : {"file"}, continue_on_error : {FALSE},
                    delete_origin : {FALSE}, target_format : {"None"},
                    prefix : {None}, suffix : {None},
                    resize_args : ResizeDirectives]
    /\ image_size \in NaturalSizes
    /\ pc = "resize_call"
    /\ input_files = <<>>
    /\ idx = 0
    /\ caesium_parameters = ParametersTemplate
    /\ convert_result = Pending
    /\ compressed = NoData
    /\ file_result = Pending
    /\ returns = <<>>
    /\ run_result = Pending
    /\ events = <<>>
    /\ stderr = <<>>
    /\ exit_code = -1
    /\ dir_entries = Directory(1)
    /\ output_file = NoPath

\* lines 154 and 198-246 for a blob whose size is image_size
ResizeCall ==
    /\ pc = "resize_call"
    /\ caesium_parameters' =
            set_scaled_size(caesium_parameters, options.resize_args, image_size)
    /\ pc' = "resize_done"
    /\ UNCHANGED <<options, run_locals, image_size, convert_result, compressed,
                   file_result, returns, run_result, events, stderr, exit_code, disk>>

ResizeNext == ResizeCall

ResizeSpec == ResizeInit /\ [][ResizeNext]_vars

---------------------------------------------------------------------------
(* Properties of Runner::run and Runner::run_process, over Spec *)

Indices(seq) == 1..Len(seq)

FilesOf(seq) == [i \in Indices(seq) |-> seq[i].file]

IsRead(ev) == ev.op = "read"

IsRunLine(line) == line.src = "run"

IsMainLine(line) == line.src = "main"

IsFailedReturn(ret) == ret.result.state = "err"

\* read_dir succeeded: the input directory has been enumerated
Enumerated == \E i \in Indices(events) : events[i].op = "read_dir" /\ events[i].ok

\* the first k files of the enumerated sequence
FirstFiles(k) == {input_files[j] : j \in 1..k}

WrittenOk(f) ==
    \E i \in Indices(events) :
        events[i].op = "write" /\ events[i].file = f /\ events[i].ok

WriteAttempts(f) ==
    {i \in Indices(events) : events[i].op = "write" /\ events[i].file = f}

\* C1: in a directory run with continue_on_error = false, the first failing
\* file ends the run: it is the last file run_process was called for, no call
\* into the filesystem or the codec touches a later file, and Runner::run
\* returns that file's error.
C1_FailFast ==
    (options.input = "dir" /\ ~options.continue_on_error) =>
        \A k \in Indices(returns) :
            returns[k].result.state = "err" =>
                /\ k = Len(returns)
                /\ idx = k
                /\ returns[k].file = input_files[k]
                /\ \A i \in Indices(events) :
                        events[i].file \in {0} \cup FirstFiles(k)
                /\ pc \in {"process_returned", "main_result", "exited"}
                /\ pc # "process_returned" => run_result = returns[k].result

\* C1 witness: three files, the second fails, the third is never touched
C1_Witness ==
    /\ options.input = "dir" /\ ~options.continue_on_error
    /\ pc = "exited"
    /\ Len(input_files) = 3
    /\ Len(returns) = 2
    /\ returns[1].result.state = "ok"
    /\ returns[2].result.state = "err"
    /\ run_result = returns[2].result

\* C2: in a directory run with continue_on_error = true that has enumerated
\* its input, at exit every file was attempted exactly once in enumeration
\* order, an output was written for exactly the files run_process succeeded
\* on, Runner::run logged one line per failing file, and it returned Ok.
C2_BestEffortBatch ==
    (options.input = "dir" /\ options.continue_on_error /\ Enumerated
        /\ pc = "exited") =>
        /\ run_result = Ok
        /\ FilesOf(SelectSeq(events, IsRead)) = input_files
        /\ FilesOf(returns) = input_files
        /\ \A k \in Indices(returns) :
                /\ returns[k].result.state = "ok" <=> WrittenOk(returns[k].file)
                /\ Cardinality(WriteAttempts(returns[k].file)) <= 1
        /\ LET failed == SelectSeq(returns, IsFailedReturn)
               logged == SelectSeq(stderr, IsRunLine)
           IN  /\ Len(logged) = Len(failed)
               /\ \A i \in Indices(failed) :
                     /\ logged[i].file = failed[i].file
                     /\ logged[i].err = failed[i].result

\* C2 witness: three files, the second fails, the first and third are written
C2_Witness ==
    /\ options.input = "dir" /\ options.continue_on_error
    /\ pc = "exited"
    /\ Len(returns) = 3
    /\ returns[1].result.state = "ok"
    /\ returns[2].result.state = "err"
    /\ returns[3].result.state = "ok"
    /\ WrittenOk(1) /\ ~WrittenOk(2) /\ WrittenOk(3)
    /\ Len(SelectSeq(stderr, IsRunLine)) = 1

\* every failure run_process returned has its line from Runner::run
EveryFailureLogged ==
    \A k \in Indices(returns) :
        returns[k].result.state = "err" =>
            \E i \in Indices(stderr) :
                stderr[i] = Line("run", returns[k].file, returns[k].result)

IsSameFormatFailure(ev) ==
    ev.op = "convert" /\ ~ev.ok /\ ev.code = SameFormatCode

ReturnedFor(f, r) ==
    \E k \in Indices(returns) : returns[k] = [file |-> f, result |-> r]

CompressCalls(f) ==
    {i \in Indices(events) : events[i].op = "compress" /\ events[i].file = f}

\* C4: convert is called only when a target format is configured; a convert
\* that fails with 10407 is followed at once by one compress call on the
\* file's original bytes with the same parameters, and that call's result is
\* the file's result (its error is returned, its bytes are what gets
\* written); a convert that fails with another code is the file's result and
\* no compress follows; with a target format compress is called only as that
\* fallback; run_process never returns the 10407 error of convert.
C4_SameFormatFallback ==
    /\ \A i \in Indices(events) :
        LET ev == events[i] IN
        /\ ev.op = "convert" =>
            /\ options.target_format = "Some"
            /\ ev.data = OriginData(ev.file)
            /\ IsSameFormatFailure(ev) =>
                /\ i = Len(events) => pc = "fallback"
                /\ i < Len(events) =>
                    LET nx == events[i + 1] IN
                    /\ nx.op = "compress" /\ nx.file = ev.file
                    /\ nx.data = OriginData(ev.file)
                    /\ nx.params = ev.params
                    /\ CompressCalls(ev.file) = {i + 1}
                    /\ ~nx.ok => ReturnedFor(ev.file, Err("compress", nx.code, ev.file))
                    /\ \A j \in Indices(events) :
                          (events[j].op = "write" /\ events[j].file = ev.file) =>
                              events[j].data =
                                  CodecOutput("compressed", ev.file, ev.params)
            /\ (~ev.ok /\ ev.code # SameFormatCode) =>
                /\ CompressCalls(ev.file) = {}
                /\ ReturnedFor(ev.file, Err("convert", ev.code, ev.file))
            /\ ev.ok => CompressCalls(ev.file) = {}
        /\ (ev.op = "compress" /\ options.target_format = "Some") =>
            /\ i > 1
            /\ IsSameFormatFailure(events[i - 1])
            /\ events[i - 1].file = ev.file
    /\ \A k \in Indices(returns) :
        ~(returns[k].result.step = "convert"
            /\ returns[k].result.code = SameFormatCode)
    /\ ~(run_result.step = "convert" /\ run_result.code = SameFormatCode)

\* C4 witness: convert fails with 10407, compress succeeds, its bytes are written
C4_Witness ==
    \E i \in Indices(events) :
        /\ IsSameFormatFailure(events[i])
        /\ i + 1 < Len(events)
        /\ events[i + 1].op = "compress" /\ events[i + 1].ok
        /\ WrittenOk(events[i].file)
        /\ ReturnedFor(events[i].file, Ok)

FailsBeforeWrite(ev) ==
    /\ ~ev.ok
    /\ \/ ev.op \in {"read", "probe", "compress", "delete"}
       \/ ev.op = "convert" /\ ev.code # SameFormatCode

OkBefore(j, ops) ==
    \E i \in 1..(j - 1) :
        events[i].op \in ops /\ events[i].ok /\ events[i].file = events[j].file

\* C6: whatever continue_on_error is, a file that failed at the read, the
\* size probe, compress / convert or the deletion has no write to its output;
\* a write is the last call made for its file and comes only after the read,
\* the probe (when resizing), the codec call and the deletion (when
\* delete_origin) all succeeded for that file.
C6_NoWriteAfterFailure ==
    /\ \A i \in Indices(events) :
        FailsBeforeWrite(events[i]) => WriteAttempts(events[i].file) = {}
    /\ \A j \in Indices(events) :
        events[j].op = "write" =>
            /\ \A i \in (j + 1)..Len(events) : events[i].file # events[j].file
            /\ OkBefore(j, {"read"})
            /\ options.resize_args.rule # "NoResize" => OkBefore(j, {"probe"})
            /\ OkBefore(j, {"compress", "convert"})
            /\ options.delete_origin => OkBefore(j, {"delete"})

\* C6 witness: a batch where one file fails in the codec and another is written
C6_Witness ==
    /\ pc = "exited"
    /\ options.continue_on_error
    /\ \E i \in Indices(events) :
        /\ events[i].op \in {"compress", "convert"}
        /\ FailsBeforeWrite(events[i])
        /\ WriteAttempts(events[i].file) = {}
    /\ \E f \in 1..MaxFiles : WrittenOk(f)

\* C7: when Runner::run returns an error, the error is printed exactly once
\* on the error stream and the process exits with a non-zero status.
C7_PrintedOnceNonZeroExit ==
    (pc = "exited" /\ run_result.state = "err") =>
        /\ Cardinality({i \in Indices(stderr) : stderr[i].err = run_result}) = 1
        /\ exit_code # 0

\* the half of C7 the code keeps: the error is printed exactly once, by main
ErrorPrintedOnceByMain ==
    (pc = "exited" /\ run_result.state = "err") =>
        /\ Cardinality({i \in Indices(stderr) : stderr[i].err = run_result}) = 1
        /\ stderr[Len(stderr)] = Line("main", 0, run_result)

---------------------------------------------------------------------------
(* Properties of Runner::set_scaled_size, over ResizeSpec *)

Min(a, b) == IF a < b THEN a ELSE b

Max(a, b) == IF a < b THEN b ELSE a

\* r is the float x cut to an unsigned integer: the integer part of a
\* non-negative x, 0 for a negative one
IsTruncationOf(x, r) ==
    IF x.m < 0 THEN r = 0
    ELSE IF x.e >= 0 THEN r = x.m * Pow2(x.e)
    ELSE r * Pow2(-x.e) <= x.m /\ x.m < (r + 1) * Pow2(-x.e)

\* C8: ShortEdge with keep_aspect_ratio over natural sizes with w # h: the
\* side of the smaller natural dimension is edge_size and the other side is
\* floor(edge_size * other_natural / short_natural).
C8_ShortEdgeExactQuotient ==
    LET a == options.resize_args
        w == image_size.width
        h == image_size.height
    IN  (pc = "resize_done" /\ a.rule = "ShortEdge" /\ a.keep_aspect_ratio
            /\ w # h) =>
            LET short_side == IF w < h THEN caesium_parameters.width
                              ELSE caesium_parameters.height
                other_side == IF w < h THEN caesium_parameters.height
                              ELSE caesium_parameters.width
            IN  /\ short_side = a.edge_size
                /\ other_side = (a.edge_size * Max(w, h)) \div Min(w, h)

\* C9: when natural width equals natural height, ShortEdge and LongEdge set
\* the height to edge_size, and the width to edge_size * width / height
\* truncated with keep_aspect_ratio, or leave it unset (0) without.
C9_SquareTakesHeightBranch ==
    LET a == options.resize_args
        w == image_size.width
        h == image_size.height
    IN  (pc = "resize_done" /\ a.rule \in {"ShortEdge", "LongEdge"} /\ w = h) =>
            /\ caesium_parameters.height = a.edge_size
            /\ caesium_parameters.width =
                    IF a.keep_aspect_ratio THEN (a.edge_size * w) \div h ELSE 0

\* C10: the Width rule sets the target width to the directive's width cut to
\* an unsigned integer, and the target height to the natural height without
\* keep_aspect_ratio, leaving it unset (0) with it; the Height rule does the
\* same with width and height exchanged.
C10_WidthHeightRules ==
    LET a == options.resize_args IN
    pc = "resize_done" =>
        /\ a.rule = "Width" =>
            /\ IsTruncationOf(a.width, caesium_parameters.width)
            /\ caesium_parameters.height =
                    IF a.keep_aspect_ratio THEN 0 ELSE image_size.height
        /\ a.rule = "Height" =>
            /\ IsTruncationOf(a.height, caesium_parameters.height)
            /\ caesium_parameters.width =
                    IF a.keep_aspect_ratio THEN 0 ELSE image_size.width

\* C10 witness: Width with a fractional width and keep_aspect_ratio = false
\* has pinned the height of a non-square image to its natural height
C10_Witness ==
    /\ pc = "resize_done"
    /\ options.resize_args.rule = "Width"
    /\ ~options.resize_args.keep_aspect_ratio
    /\ options.resize_args.width = [m |-> 7, e |-> -2]
    /\ image_size = [width |-> 5, height |-> 3]
    /\ caesium_parameters = [width |-> 1, height |-> 3]

---------------------------------------------------------------------------
(* set_scaled_size on Scale directives: every value of ratio, width and     *)
(* height the fields of ResizeArgs can hold within the bounds, those the   *)
(* parser never builds together included                                    *)

\* largest natural width / height probed in ScaleSpec
MaxScaleDim == 5

\* the f32 the decimal num / den is parsed to (f32::from_str rounds correctly)
ParseF32(num, den) == DivF32(U32AsF32(num), U32AsF32(den))

\* the values of an f32 field: the quarters, and two decimals that are no
\* binary fractions
ScaleFloats == Floats \cup {ParseF32(1, 10), ParseF32(7, 10)}

ScaleDirectives ==
    {[ResizeArgsNew EXCEPT !.rule = "Scale", !.ratio = r, !.width = w,
                           !.height = h, !.keep_aspect_ratio = k] :
        r \in ScaleFloats, w \in ScaleFloats, h \in ScaleFloats, k \in BOOLEAN}

ScaleInit ==
    /\ options \in [input : {"file"}, output : {"file"}, continue_on_error : {FALSE},
                    delete_origin : {FALSE}, target_format : {"None"},
                    prefix : {None}, suffix : {None},
                    resize_args : ScaleDirectives]
    /\ image_size \in [width : 1..MaxScaleDim, height : 1..MaxScaleDim]
    /\ pc = "resize_call"
    /\ input_files = <<>>
    /\ idx = 0
    /\ caesium_parameters = ParametersTemplate
    /\ convert_result = Pending
    /\ compressed = NoData
    /\ file_result = Pending
    /\ returns = <<>>
    /\ run_result = Pending
    /\ events = <<>>
    /\ stderr = <<>>
    /\ exit_code = -1
    /\ dir_entries = Directory(1)
    /\ output_file = NoPath

ScaleNext == ResizeCall

ScaleSpec == ScaleInit /\ [][ScaleNext]_vars

\* C11: for a Scale directive with a non-zero ratio the target is the
\* natural width and height each multiplied by ratio (in f32) and cut to an
\* unsigned integer, whatever the directive's width and height hold; with a
\* zero ratio width and height are the multipliers of their own axis.
C11_ScaleRatioFirst ==
    LET a == options.resize_args
        w == U32AsF32(image_size.width)
        h == U32AsF32(image_size.height)
    IN  (pc = "resize_done" /\ a.rule = "Scale") =>
            /\ a.ratio.m # 0 =>
                /\ IsTruncationOf(MulF32(w, a.ratio), caesium_parameters.width)
                /\ IsTruncationOf(MulF32(h, a.ratio), caesium_parameters.height)
            /\ a.ratio.m = 0 =>
                /\ IsTruncationOf(MulF32(w, a.width), caesium_parameters.width)
                /\ IsTruncationOf(MulF32(h, a.height), caesium_parameters.height)

\* C11 witness: ratio 3/4 with width 2 and height 1/4 also set, on a 5x3
\* image: the target is 3x2, the fractions have no part in it
C11_Witness ==
    /\ pc = "resize_done"
    /\ options.resize_args.rule = "Scale"
    /\ options.resize_args.ratio = [m |-> 3, e |-> -2]
    /\ options.resize_args.width = [m |-> 8, e |-> -2]
    /\ options.resize_args.height = [m |-> 1, e |-> -2]
    /\ image_size = [width |-> 5, height |-> 3]
    /\ caesium_parameters = [width |-> 3, height |-> 2]

---------------------------------------------------------------------------
(* The order of the checks in Runner::run, and what one file leaves behind  *)

\* C13: with a directory as input and an existing regular file as output,
\* run returns its error before anything is listed, read, compressed, deleted
\* or written: no call on the file system or the codec has been made and no
\* file has been handed to run_process, in any state of such a run.
C13_OutputFileRejectedFirst ==
    (options.input = "dir" /\ options.output = "file") =>
        /\ events = <<>>
        /\ input_files = <<>>
        /\ returns = <<>>
        /\ pc \in {"run", "prepare_output", "main_result", "exited"}
        /\ pc \in {"main_result", "exited"} =>
                run_result = Err("output_is_file", 0, 0)

\* C13 witness: such a run has returned its error to main
C13_Witness ==
    /\ options.input = "dir"
    /\ options.output = "file"
    /\ pc = "main_result"
    /\ run_result = Err("output_is_file", 0, 0)
    /\ events = <<>>

IsCodecCall(ev) == ev.op \in {"compress", "convert"}

\* the parameters a file's codec calls get when they start from the template
ParametersFor(f) ==
    IF options.resize_args.rule = "NoResize"
    THEN ParametersTemplate
    ELSE set_scaled_size(ParametersTemplate, options.resize_args, blob_size(f))

\* C14: every file's size probe starts from the template with width and
\* height 0, and every codec call of a file gets the template overwritten by
\* that file's own resolution only; a dimension the rule leaves unset (ShortEdge
\* with keep_aspect_ratio = false sets one side only) is 0 in that file's
\* parameters, whatever was computed for the files before it.
C14_FreshParametersPerFile ==
    \A j \in Indices(events) :
        /\ events[j].op = "probe" => events[j].params = ParametersTemplate
        /\ IsCodecCall(events[j]) =>
            /\ events[j].params = ParametersFor(events[j].file)
            /\ (/\ options.resize_args.rule = "ShortEdge"
                /\ ~options.resize_args.keep_aspect_ratio) =>
                    IF blob_size(events[j].file).width
                            < blob_size(events[j].file).height
                    THEN events[j].params.height = 0
                    ELSE events[j].params.width = 0

\* C14 witness: ShortEdge 3 without keep_aspect_ratio; the first file (1x2)
\* is compressed with 3x0 and the second (2x1) after it with 0x3
C14_Witness ==
    \E i, j \in Indices(events) :
        /\ i < j
        /\ IsCodecCall(events[i]) /\ events[i].file = 1
        /\ events[i].params = [width |-> 3, height |-> 0]
        /\ IsCodecCall(events[j]) /\ events[j].file = 2
        /\ events[j].params = [width |-> 0, height |-> 3]

\* C15: the program calls remove_file on an input only when delete_origin is
\* set and the call right before it was that file's compress / convert call
\* returning success; a file whose run_process returned a read, probe,
\* compress or convert error has no remove_file call.
C15_DeleteOnlyAfterSuccess ==
    /\ \A j \in Indices(events) :
        events[j].op = "delete" =>
            /\ options.delete_origin
            /\ j > 1
            /\ IsCodecCall(events[j - 1])
            /\ events[j - 1].ok
            /\ events[j - 1].file = events[j].file
            /\ \A i \in 1..(j - 1) :
                    (events[i].file = events[j].file /\ ~events[i].ok) =>
                        /\ events[i].op = "convert"
                        /\ events[i].code = SameFormatCode
    /\ \A k \in Indices(returns) :
        (/\ returns[k].result.state = "err"
         /\ returns[k].result.step \in {"read", "probe", "compress", "convert"}) =>
            \A j \in Indices(events) :
                events[j].op = "delete" => events[j].file # returns[k].file

\* C15 witness: with delete_origin, one file failed in compress / convert and
\* was left in place, a later one was compressed and deleted
C15_Witness ==
    /\ options.delete_origin
    /\ \E k \in Indices(returns) :
        /\ returns[k].result.state = "err"
        /\ returns[k].result.step \in {"compress", "convert"}
        /\ \E j \in Indices(events) :
            /\ events[j].op = "delete"
            /\ events[j].ok
            /\ events[j].file # returns[k].file

---------------------------------------------------------------------------
(* Runs whose output directory is the directory of the input *)

SameDirOptions ==
    [input : {"missing", "file", "dir"},
     output : {"input_dir"},
     continue_on_error : BOOLEAN,
     delete_origin : BOOLEAN,
     target_format : {"None", "Some"},
     resize_args : RunDirectives,
     prefix : {None, Some(<<"s", "_">>)},
     suffix : {None}]

SameDirInit ==
    /\ options \in SameDirOptions
    /\ pc = "run"
    /\ input_files = <<>>
    /\ idx = 0
    /\ caesium_parameters = ParametersTemplate
    /\ image_size = NoSize
    /\ convert_result = Pending
    /\ compressed = NoData
    /\ file_result = Pending
    /\ returns = <<>>
    /\ run_result = Pending
    /\ events = <<>>
    /\ stderr = <<>>
    /\ exit_code = -1
    /\ dir_entries \in InitialEntries(options)
    /\ output_file = NoPath

SameDirSpec == SameDirInit /\ [][Next]_vars

Range(seq) == {seq[i] : i \in Indices(seq)}

ReadsOf(f) == {i \in Indices(events) : IsRead(events[i]) /\ events[i].file = f}

\* in every state of a directory run: the list names no file twice, only files
\* of the list taken so far have been read, each at most once, and a regular
\* file of the directory that is not in the list has had no call made on it
ListedFilesOnly ==
    options.input = "dir" =>
        /\ \A i, j \in Indices(input_files) :
                i # j => input_files[i] # input_files[j]
        /\ \A j \in Indices(events) :
                events[j].op \notin {"create_dir_all", "read_dir"} =>
                    /\ events[j].file \in FirstFiles(idx)
                    /\ Cardinality(ReadsOf(events[j].file)) = 1
        /\ Enumerated =>
                \A f \in RegularFiles(dir_entries) \ Range(input_files) :
                    \A j \in Indices(events) : events[j].file # f

\* in every step: the list changes only in the step that lists the directory,
\* before any file is read, and becomes the regular files the directory holds
\* at that moment, each once
ListedOnce ==
    input_files' # input_files =>
        /\ pc = "enumerate"
        /\ input_files = <<>>
        /\ \A j \in Indices(events) : ~IsRead(events[j])
        /\ Range(input_files') = RegularFiles(dir_entries)
        /\ Len(input_files') = Cardinality(RegularFiles(dir_entries))

\* C16: in a directory run the list of files is fixed once, before the first
\* file is processed, as the regular files that are direct children of the
\* input directory at that moment; each listed file is processed at most once;
\* a file the run creates in the input directory is never taken as an input.
C16_ListingFixedBeforeProcessing == [][ListedOnce]_vars /\ []ListedFilesOnly

\* C16 witness: a run with a prefix over two files of its own output directory
\* is over; the directory now also holds an output that was not listed, and
\* the two listed files were read once each
C16_Witness ==
    /\ options.input = "dir"
    /\ options.output = "input_dir"
    /\ options.prefix.some
    /\ pc = "main_result"
    /\ run_result = Ok
    /\ input_files = <<1, 2>>
    /\ RegularFiles(dir_entries) = {1, 2, 3}
    /\ Cardinality(ReadsOf(1)) = 1
    /\ Cardinality(ReadsOf(2)) = 1
    /\ ReadsOf(3) = {}

---------------------------------------------------------------------------
(* Runner::make_path on file names: a path or a name is the sequence of its *)
(* characters. In PathSpec options.input, options.output and output_file are *)
(* such paths and options.prefix, options.suffix are Option<String>.        *)

\* longest file name, prefix and suffix tried
MaxNameLen == 3
MaxPrefixLen == 2
MaxSuffixLen == 1

StringsUpTo(alphabet, n) == UNION {[1..k -> alphabet] : k \in 0..n}

\* the names a regular file can have: not empty, not "." and not ".."
FileNames ==
    StringsUpTo({"a", "."}, MaxNameLen) \ {<<>>, <<".">>, <<".", ".">>}

Prefixes == {None} \cup {Some(v) : v \in StringsUpTo({"s", ".", "/"}, MaxPrefixLen)}

Suffixes == {None} \cup {Some(v) : v \in StringsUpTo({"v", "."}, MaxSuffixLen)}

InputDir == <<"i">>
OutputDir == <<"o">>

\* the last position of character c in s, 0 when it has none
LastIndexOf(s, c) ==
    LET at == {i \in 1..Len(s) : s[i] = c}
    IN  IF at = {} THEN 0 ELSE CHOOSE i \in at : \A j \in at : j <= i

\* Path::file_name of a path that ends in a file name: its last component
file_name(path) == SubSeq(path, LastIndexOf(path, "/") + 1, Len(path))

\* PathBuf::join: an absolute path replaces the directory
join(dir, path) ==
    IF path # <<>> /\ path[1] = "/" THEN path ELSE dir \o <<"/">> \o path

\* Path::file_stem and Path::extension: the file name is split at its last
\* '.', unless it is "..", has no '.', or has its only '.' in front
rsplit_file_at_dot(file) ==
    LET dot == LastIndexOf(file, ".")
    IN  IF file = <<".", ".">> \/ dot <= 1
        THEN [before |-> Some(file), after |-> None]
        ELSE [before |-> Some(SubSeq(file, 1, dot - 1)),
              after |-> Some(SubSeq(file, dot + 1, Len(file)))]

file_stem(path) == rsplit_file_at_dot(file_name(path)).before

extension(path) == rsplit_file_at_dot(file_name(path)).after

\* lines 124-139
get_parted_filename(filename) ==
    IF filename = <<>>
    THEN <<<<>>, None>>
    ELSE <<file_stem(filename).value, extension(filename)>>

\* mutant of make_path: the suffix goes before the last '.' of the input's own
\* file name, and the prefix is put in front afterwards
make_path_SplitsInputName(input_path, output_dir, prefix, suffix) ==
    LET filename == file_name(input_path)
        dot == LastIndexOf(filename, ".")
        suffixed ==
            IF ~suffix.some THEN filename
            ELSE IF dot = 0 THEN filename \o suffix.value
            ELSE SubSeq(filename, 1, dot - 1) \o suffix.value \o <<".">>
                    \o SubSeq(filename, dot + 1, Len(filename))
    IN  join(output_dir, (IF prefix.some THEN prefix.value ELSE <<>>) \o suffixed)

\* lines 97-122
make_path(input_path, output_dir, prefix, suffix) ==
    LET filename == file_name(input_path)
        prefixed == IF prefix.some THEN prefix.value \o filename ELSE filename
        parted_filename == get_parted_filename(prefixed)
        suffixed ==
            IF ~suffix.some THEN prefixed
            ELSE IF ~parted_filename[2].some
            THEN prefixed \o suffix.value
            ELSE parted_filename[1] \o suffix.value \o <<".">>
                    \o parted_filename[2].value
    IN  join(output_dir, suffixed)

PathInit ==
    /\ options \in [input : {InputDir \o <<"/">> \o n : n \in FileNames},
                    output : {OutputDir},
                    continue_on_error : {FALSE}, delete_origin : {FALSE},
                    target_format : {"None"}, resize_args : {ResizeArgsNew},
                    prefix : Prefixes, suffix : Suffixes]
    /\ pc = "make_path"
    /\ input_files = <<>>
    /\ idx = 0
    /\ caesium_parameters = ParametersTemplate
    /\ image_size = NoSize
    /\ convert_result = Pending
    /\ compressed = NoData
    /\ file_result = Pending
    /\ returns = <<>>
    /\ run_result = Pending
    /\ events = <<>>
    /\ stderr = <<>>
    /\ exit_code = -1
    /\ dir_entries = {}
    /\ output_file = <<>>

\* lines 52-56 and 80-81: the call of make_path
MakePath ==
    /\ pc = "make_path"
    /\ output_file' = make_path(options.input, options.output, options.prefix,
                                options.suffix)
    /\ pc' = "path_made"
    /\ UNCHANGED <<options, run_locals, process_locals, run_result, events, stderr,
                   exit_code, dir_entries>>

PathNext == MakePath

PathSpec == PathInit /\ [][PathNext]_vars

\* the input's file name, and the strings an absent prefix or suffix stand for
InputName == SubSeq(options.input, Len(InputDir) + 2, Len(options.input))

PrefixText == IF options.prefix.some THEN options.prefix.value ELSE <<>>

SuffixText == IF options.suffix.some THEN options.suffix.value ELSE <<>>

BeforeLastDot(s) == SubSeq(s, 1, LastIndexOf(s, ".") - 1)

AfterLastDot(s) == SubSeq(s, LastIndexOf(s, ".") + 1, Len(s))

AfterLastSlash(s) == SubSeq(s, LastIndexOf(s, "/") + 1, Len(s))

\* C12 as claimed: the result is output_dir joined with prefix + stem + suffix
\* + "." + ext, stem and ext being the input file name before and after its
\* last '.', or with prefix + filename + suffix when the name has no '.'.
C12_SplitsInputFilename ==
    pc = "path_made" =>
        output_file =
            join(options.output,
                 IF LastIndexOf(InputName, ".") = 0
                 THEN PrefixText \o InputName \o SuffixText
                 ELSE PrefixText \o BeforeLastDot(InputName) \o SuffixText
                        \o <<".">> \o AfterLastDot(InputName))

\* C12 amended: let p be prefix + input file name. Without a suffix the result
\* is output_dir joined with p. With a suffix, let c be the last path component
\* of p: when c has a '.' that is not its first character (and c is not ".."),
\* the result is output_dir joined with (c before its last '.') + suffix + "."
\* + (c after its last '.'); otherwise it is output_dir joined with p + suffix.
C12_SplitsPrefixedName ==
    LET p == PrefixText \o InputName
        c == AfterLastSlash(p)
    IN  pc = "path_made" =>
            output_file =
                join(options.output,
                     IF ~options.suffix.some THEN p
                     ELSE IF LastIndexOf(c, ".") > 1 /\ c # <<".", ".">>
                     THEN BeforeLastDot(c) \o SuffixText \o <<".">> \o AfterLastDot(c)
                     ELSE p \o SuffixText)

\* C12 witness: "a" with prefix "s." and suffix "v" gives "o/sv.a", the split
\* being made at the '.' of the prefix
C12_Witness ==
    /\ pc = "path_made"
    /\ InputName = <<"a">>
    /\ options.prefix = Some(<<"s", ".">>)
    /\ options.suffix = Some(<<"v">>)
    /\ output_file = <<"o", "/", "s", "v", ".", "a">>

====
